---- MODULE Spec2Model ----
(***************************************************************************)
(* A model of the two scripts of the repository:                          *)
(*   scripts/dbip_shrink.py  the IP-range-to-binary packer                 *)
(*   scripts/maven_fetch.py  the Maven artifact fetcher                    *)
(* A text string is a sequence of one-character strings, a byte string a   *)
(* sequence of numbers in 0..255.                                          *)
(***************************************************************************)
EXTENDS Integers, Sequences, FiniteSets, TLC

(***************************************************************************)
(* Bounds of the model.                                                    *)
(***************************************************************************)
\* The longest input (rows of the CSV) a run is given.
MaxRows == 3
\* How many times the same command line is run in a row.
MaxRuns == 2

(***************************************************************************)
(* Characters and strings.                                                 *)
(***************************************************************************)
\* The printable ASCII characters in code order, from code 33 ("!") on; the
\* quotes and the backslash are written as tokens.
AsciiTable ==
  << "!", "DQUOTE", "#", "$", "%", "&", "SQUOTE", "(", ")", "*", "+", ",", "-", ".", "/",
     "0", "1", "2", "3", "4", "5", "6", "7", "8", "9", ":", ";", "<", "=", ">", "?",
     "@", "A", "B", "C", "D", "E", "F", "G", "H", "I", "J", "K", "L", "M", "N", "O",
     "P", "Q", "R", "S", "T", "U", "V", "W", "X", "Y", "Z", "[", "BSLASH", "]", "^",
     "_", "BQUOTE", "a", "b", "c", "d", "e", "f", "g", "h", "i", "j", "k", "l", "m", "n",
     "o", "p", "q", "r", "s", "t", "u", "v", "w", "x", "y", "z", "{", "|", "}", "~" >>

IndexOf(seq, c) == CHOOSE i \in 1..Len(seq) : seq[i] = c

InSeq(seq, c) == \E i \in 1..Len(seq) : seq[i] = c

\* The code point of a character. The one character outside ASCII that the
\* model uses is "U+00E9" (e with acute accent, code point 233).
Ord(c) == IF c = " " THEN 32
          ELSE IF InSeq(AsciiTable, c) THEN 32 + IndexOf(AsciiTable, c)
          ELSE 233

DecDigits == << "0", "1", "2", "3", "4", "5", "6", "7", "8", "9" >>

HexLower == DecDigits \o << "a", "b", "c", "d", "e", "f" >>

HexUpper == DecDigits \o << "A", "B", "C", "D", "E", "F" >>

IsHexDigit(c) == InSeq(HexLower, c) \/ InSeq(HexUpper, c)

HexDigitVal(c) == IF InSeq(HexLower, c) THEN IndexOf(HexLower, c) - 1
                  ELSE IndexOf(HexUpper, c) - 1

\* int(s) of a string of decimal digits.
RECURSIVE DecValue(_)
DecValue(s) == IF s = << >> THEN 0
               ELSE DecValue(SubSeq(s, 1, Len(s) - 1)) * 10
                    + (IndexOf(DecDigits, s[Len(s)]) - 1)

\* int(s, 16) of a string of hexadecimal digits.
RECURSIVE HexValue(_)
HexValue(s) == IF s = << >> THEN 0
               ELSE HexValue(SubSeq(s, 1, Len(s) - 1)) * 16 + HexDigitVal(s[Len(s)])

\* The lower-case hexadecimal form of n >= 0 (the format %x).
RECURSIVE ToHex(_)
ToHex(n) == IF n < 16 THEN << HexLower[n + 1] >>
            ELSE ToHex(n \div 16) \o << HexLower[(n % 16) + 1] >>

\* s.split(sep): the pieces of s between the occurrences of the character sep.
RECURSIVE SplitOn(_, _)
SplitOn(s, sep) ==
  IF ~InSeq(s, sep) THEN << s >>
  ELSE LET i == CHOOSE j \in 1..Len(s) :
                  s[j] = sep /\ \A k \in 1..(j - 1) : s[k] # sep
       IN  << SubSeq(s, 1, i - 1) >> \o SplitOn(SubSeq(s, i + 1, Len(s)), sep)

\* s.replace(old, new) for single characters.
ReplaceChar(s, old, new) == [i \in 1..Len(s) |-> IF s[i] = old THEN new ELSE s[i]]

RECURSIVE Flatten(_)
Flatten(ss) == IF ss = << >> THEN << >> ELSE Head(ss) \o Flatten(Tail(ss))

(***************************************************************************)
(* ipaddress.ip_address(start), as dbip_shrink.py calls it on a string:    *)
(* the IPv4 parser is tried first, then the IPv6 parser; ValueError when   *)
(* both refuse. An IPv4 address's value is its integer; an IPv6 address's  *)
(* 128-bit integer is kept as its eight 16-bit groups, most significant    *)
(* first. Zone identifiers ("%eth0") are outside the modelled inputs.      *)
(***************************************************************************)
\* One dotted-quad octet: one to three decimal digits, no leading zero, at
\* most 255.
OctetOk(o) ==
  /\ Len(o) \in 1..3
  /\ \A i \in 1..Len(o) : InSeq(DecDigits, o[i])
  /\ (Len(o) > 1 => o[1] # "0")
  /\ DecValue(o) <= 255

BadAddr == [ok |-> FALSE, version |-> 0, value |-> 0]

V4FromOctets(octets) ==
  IF Len(octets) = 4 /\ (\A i \in 1..4 : OctetOk(octets[i]))
  THEN [ok |-> TRUE, version |-> 4,
        value |-> ((DecValue(octets[1]) * 256 + DecValue(octets[2])) * 256
                   + DecValue(octets[3])) * 256 + DecValue(octets[4])]
  ELSE BadAddr

ParseIPv4(s) ==
  IF s # << >> /\ ~InSeq(s, "/") THEN V4FromOctets(SplitOn(s, ".")) ELSE BadAddr

HextetOk(h) == Len(h) \in 1..4 /\ \A i \in 1..Len(h) : IsHexDigit(h[i])

\* The two hextets, in hexadecimal, of a dotted quad's value.
QuadHextets(quad) ==
  << ToHex(DecValue(quad[1]) * 256 + DecValue(quad[2])),
     ToHex(DecValue(quad[3]) * 256 + DecValue(quad[4])) >>

\* The colon-separated parts, a trailing dotted quad replaced by the two
\* hextets of its value; << >> when the dotted quad does not parse.
V6Embed(parts, last) ==
  IF ~InSeq(last, ".") THEN parts
  ELSE IF ParseIPv4(last).ok
  THEN SubSeq(parts, 1, Len(parts) - 1) \o QuadHextets(SplitOn(last, "."))
  ELSE << >>

V6Last(parts) == V6Embed(parts, parts[Len(parts)])

\* The groups before the "::", the zero groups it stands for, the groups after.
V6Groups(his, skipped, los) ==
  IF (\A i \in 1..Len(his) : HextetOk(his[i])) /\ (\A j \in 1..Len(los) : HextetOk(los[j]))
  THEN [ok |-> TRUE, version |-> 6,
        value |-> [i \in 1..Len(his) |-> HexValue(his[i])]
                  \o [i \in 1..skipped |-> 0]
                  \o [i \in 1..Len(los) |-> HexValue(los[i])]]
  ELSE BadAddr

\* hi groups before the "::" and lo groups after it; a leading or trailing
\* empty part is allowed only as a part of the "::".
V6Join(parts, n, hi, lo) ==
  IF (parts[1] = << >> /\ hi # 0) \/ (parts[n] = << >> /\ lo # 0) \/ 8 - (hi + lo) < 1
  THEN BadAddr
  ELSE V6Groups(SubSeq(parts, 1, hi), 8 - (hi + lo), SubSeq(parts, n - lo + 1, n))

EmptyAt(parts, i) == IF parts[i] = << >> THEN 1 ELSE 0

V6Shape(parts, n, skips) ==
  IF n = 0 \/ n > 9 \/ Cardinality(skips) > 1 THEN BadAddr
  ELSE IF skips = {} THEN (IF n = 8 THEN V6Groups(parts, 0, << >>) ELSE BadAddr)
  ELSE LET k == CHOOSE i \in skips : TRUE
       IN  V6Join(parts, n, (k - 1) - EmptyAt(parts, 1), (n - k) - EmptyAt(parts, n))

V6FromParts(parts) ==
  V6Shape(parts, Len(parts), {i \in 2..(Len(parts) - 1) : parts[i] = << >>})

ParseIPv6(s) ==
  IF s = << >> \/ InSeq(s, "/") \/ Len(SplitOn(s, ":")) < 3 THEN BadAddr
  ELSE V6FromParts(V6Last(SplitOn(s, ":")))

ParseIP(s) == IF ParseIPv4(s).ok THEN ParseIPv4(s) ELSE ParseIPv6(s)

\* addr.packed: int.to_bytes(4, 'big') or int.to_bytes(16, 'big').
Packed(addr) ==
  IF addr.version = 4
  THEN << (addr.value \div 16777216) % 256, (addr.value \div 65536) % 256,
          (addr.value \div 256) % 256, addr.value % 256 >>
  ELSE Flatten([i \in 1..8 |-> << addr.value[i] \div 256, addr.value[i] % 256 >>])

\* bytes(country, 'us-ascii'): one byte per character, UnicodeEncodeError
\* when a character is outside ASCII.
AsciiOk(s) == \A i \in 1..Len(s) : Ord(s[i]) < 128

AsciiBytes(s) == [i \in 1..Len(s) |-> Ord(s[i])]

(***************************************************************************)
(* The inputs of the packer. An item of the input is a CSV row (its        *)
(* fields) or the place where the compressed stream stops being readable   *)
(* (not gzip data, cut short, or not text).                                *)
(***************************************************************************)
S_1_0_0_0 == << "1", ".", "0", ".", "0", ".", "0" >>

S_1_0_0_255 == << "1", ".", "0", ".", "0", ".", "2", "5", "5" >>

S_127_0_1_255 == << "1", "2", "7", ".", "0", ".", "1", ".", "2", "5", "5" >>

S_2001_db8 == << "2", "0", "0", "1", ":", "d", "b", "8", ":", ":" >>

S_2001_db8_ffff == << "2", "0", "0", "1", ":", "d", "b", "8", ":", ":", "f", "f", "f", "f" >>

S_not_an_ip == << "n", "o", "t", "-", "a", "n", "-", "i", "p" >>

C_AU == << "A", "U" >>

C_US == << "U", "S" >>

C_USA == << "U", "S", "A" >>

C_U == << "U" >>

C_Ze == << "Z", "U+00E9" >>

C_empty == << >>

Row(fields) == [kind |-> "row", fields |-> fields]

Corrupt == [kind |-> "corrupt", fields |-> << >>]

SampleRows ==
  { Row(<< S_1_0_0_0, S_1_0_0_255, C_AU >>),
    Row(<< S_127_0_1_255, S_127_0_1_255, C_US >>),
    Row(<< S_2001_db8, S_2001_db8_ffff, C_US >>),
    Row(<< S_not_an_ip, S_1_0_0_0, C_US >>),
    Row(<< S_1_0_0_0, S_1_0_0_255, C_USA >>),
    Row(<< S_2001_db8, S_2001_db8_ffff, C_U >>),
    Row(<< S_1_0_0_0, S_1_0_0_255, C_empty >>),
    Row(<< S_127_0_1_255, S_127_0_1_255, C_Ze >>),
    Row(<< >>),
    Corrupt }

RECURSIVE SeqsUpTo(_, _)
SeqsUpTo(S, n) ==
  IF n = 0 THEN { << >> }
  ELSE LET shorter == SeqsUpTo(S, n - 1)
       IN  shorter \cup { Append(s, x) : s \in {q \in shorter : Len(q) = n - 1}, x \in S }

\* What <prefix>.v4 or <prefix>.v6 is before the first run: absent, empty, or
\* left with content.
PriorFiles ==
  { [exists |-> FALSE, data |-> << >>],
    [exists |-> TRUE,  data |-> << >>],
    [exists |-> TRUE,  data |-> << 9, 9, 9 >>] }

(***************************************************************************)
(* The state.                                                              *)
(***************************************************************************)
VARIABLES
  input,        \* the items of the file sys.argv[1] names
  inputExists,  \* whether gzip.open can open that file
  v4exists, v4file,   \* <prefix>.v4: whether it exists, and its bytes
  v6exists, v6file,   \* <prefix>.v6
  v4open, v6open, inopen,   \* which handles are open
  pc,           \* "start", "v4opened", "v6opened", "loop", "done", "failed"
  pos,          \* rows of the input whose loop body has completed
  err,          \* the exception that ended the run, "none" while there is none
  runs,         \* how many runs were started
  coordinates,  \* argv[1] of the fetcher
  dirs,         \* the directories that exist under the working directory
  mfiles,       \* the files the fetcher has written: path and content
  mpc,          \* "start", "split", "made", "pom", "done", "failed"
  merr,         \* the exception that ended the fetcher, or "none"
  mruns         \* how many times the fetcher was started

packerVars == << input, inputExists, v4exists, v4file, v6exists, v6file,
                 v4open, v6open, inopen, pc, pos, err, runs >>

mavenVars == << coordinates, dirs, mfiles, mpc, merr, mruns >>

vars == << packerVars, mavenVars >>

Init ==
  /\ inputExists \in BOOLEAN
  /\ input \in (IF inputExists THEN SeqsUpTo(SampleRows, MaxRows) ELSE { << >> })
  /\ \E f \in PriorFiles : v4exists = f.exists /\ v4file = f.data
  /\ \E f \in PriorFiles : v6exists = f.exists /\ v6file = f.data
  /\ v4open = FALSE /\ v6open = FALSE /\ inopen = FALSE
  /\ pc = "start" /\ pos = 0 /\ err = "none" /\ runs = 1
  /\ coordinates = << >> /\ dirs = {} /\ mfiles = {}
  /\ mpc = "idle" /\ merr = "none" /\ mruns = 0

(***************************************************************************)
(* dbip_shrink.py, lines 17 to 25.                                         *)
(***************************************************************************)
\* A faulty variant: the file opened without truncation (mode 'ab').
OpenAB(old) == old

\* open(name, 'wb'): the content of the file once opened.
OpenWB(old) == << >>

\* A faulty variant: the handle opened outside a with statement, never closed.
NoExit(h) == h

\* A handle of the with statement after the statement is left.
WithExit(h) == FALSE

\* A faulty variant: the data put before the content.
FileWriteFront(content, data) == data \o content

\* file.write(data) on a file opened for writing: the content after it.
FileWrite(content, data) == content \o data

\* v4file if addr.version == 4 else v6file
SelectV4(addr) == addr.version = 4

\* An exception leaves the with statement: the handles opened so far are
\* closed and the process ends with a traceback.
Abort(e) ==
  /\ pc' = "failed" /\ err' = e
  /\ v4open' = WithExit(v4open)
  /\ v6open' = WithExit(v6open)
  /\ inopen' = WithExit(inopen)

OpenV4 ==
  /\ pc = "start"
  /\ v4exists' = TRUE /\ v4file' = OpenWB(v4file) /\ v4open' = TRUE
  /\ pc' = "v4opened"
  /\ UNCHANGED mavenVars
  /\ UNCHANGED << input, inputExists, v6exists, v6file, v6open, inopen, pos, err, runs >>

OpenV4Fail ==
  /\ pc = "start"
  /\ Abort("OutputOpenError")
  /\ UNCHANGED mavenVars
  /\ UNCHANGED << input, inputExists, v4exists, v4file, v6exists, v6file, pos, runs >>

OpenV6 ==
  /\ pc = "v4opened"
  /\ v6exists' = TRUE /\ v6file' = OpenWB(v6file) /\ v6open' = TRUE
  /\ pc' = "v6opened"
  /\ UNCHANGED mavenVars
  /\ UNCHANGED << input, inputExists, v4exists, v4file, v4open, inopen, pos, err, runs >>

OpenV6Fail ==
  /\ pc = "v4opened"
  /\ Abort("OutputOpenError")
  /\ UNCHANGED mavenVars
  /\ UNCHANGED << input, inputExists, v4exists, v4file, v6exists, v6file, pos, runs >>

OpenIn ==
  /\ pc = "v6opened" /\ inputExists
  /\ inopen' = TRUE /\ pc' = "loop"
  /\ UNCHANGED mavenVars
  /\ UNCHANGED << input, inputExists, v4exists, v4file, v6exists, v6file,
                  v4open, v6open, pos, err, runs >>

OpenInFail ==
  /\ pc = "v6opened" /\ ~inputExists
  /\ Abort("InputOpenError")
  /\ UNCHANGED mavenVars
  /\ UNCHANGED << input, inputExists, v4exists, v4file, v6exists, v6file, pos, runs >>

\* The item the next iteration of the loop reads.
HasNext == pc = "loop" /\ pos < Len(input)

NextItem == input[pos + 1]

IsTriple(item) == item.kind = "row" /\ Len(item.fields) = 3

\* Reading the next row fails inside gzip, the text decoder or csv.
ReadFail ==
  /\ HasNext /\ NextItem.kind = "corrupt"
  /\ Abort("ReadError")
  /\ UNCHANGED mavenVars
  /\ UNCHANGED << input, inputExists, v4exists, v4file, v6exists, v6file, pos, runs >>

\* for start, end, country in ...: a row that has not three fields.
RowUnpackFail ==
  /\ HasNext /\ NextItem.kind = "row" /\ Len(NextItem.fields) # 3
  /\ Abort("UnpackError")
  /\ UNCHANGED mavenVars
  /\ UNCHANGED << input, inputExists, v4exists, v4file, v6exists, v6file, pos, runs >>

\* Whether ipaddress.ip_address(start) accepts the row's first field.
StartParses(item) == ParseIP(item.fields[1]).ok

\* A faulty variant: the malformed row is skipped and the loop goes on.
RowParseSkip ==
  /\ HasNext /\ IsTriple(NextItem) /\ ~StartParses(NextItem)
  /\ pos' = pos + 1
  /\ UNCHANGED mavenVars
  /\ UNCHANGED << input, inputExists, v4exists, v4file, v6exists, v6file,
                  v4open, v6open, inopen, pc, err, runs >>

\* ipaddress.ip_address(start) raises ValueError.
RowParseFail ==
  /\ HasNext /\ IsTriple(NextItem) /\ ~StartParses(NextItem)
  /\ Abort("ParseError")
  /\ UNCHANGED mavenVars
  /\ UNCHANGED << input, inputExists, v4exists, v4file, v6exists, v6file, pos, runs >>

\* file.write(data) on the file of the address's version.
WriteTo(isV4, data) ==
  IF isV4
  THEN v4file' = FileWrite(v4file, data) /\ v6file' = v6file
  ELSE v6file' = FileWrite(v6file, data) /\ v4file' = v4file

\* file.write(addr.packed); file.write(bytes(country, 'us-ascii'))
WriteBoth(isV4, packed, country) ==
  IF isV4
  THEN v4file' = FileWrite(FileWrite(v4file, packed), country) /\ v6file' = v6file
  ELSE v6file' = FileWrite(FileWrite(v6file, packed), country) /\ v4file' = v4file

WriteAddress(addr) == WriteTo(SelectV4(addr), Packed(addr))

WriteRecord(addr, country) == WriteBoth(SelectV4(addr), Packed(addr), AsciiBytes(country))

\* The address is written, then bytes(country, 'us-ascii') raises
\* UnicodeEncodeError.
RowEncodeFail ==
  /\ HasNext /\ IsTriple(NextItem) /\ StartParses(NextItem)
  /\ ~AsciiOk(NextItem.fields[3])
  /\ WriteAddress(ParseIP(NextItem.fields[1]))
  /\ Abort("EncodingError")
  /\ UNCHANGED mavenVars
  /\ UNCHANGED << input, inputExists, v4exists, v6exists, pos, runs >>

\* One full iteration: the address, then the country, to the file of the
\* address's version.
RowWrite ==
  /\ HasNext /\ IsTriple(NextItem) /\ StartParses(NextItem)
  /\ AsciiOk(NextItem.fields[3])
  /\ WriteRecord(ParseIP(NextItem.fields[1]), NextItem.fields[3])
  /\ pos' = pos + 1
  /\ UNCHANGED mavenVars
  /\ UNCHANGED << input, inputExists, v4exists, v6exists, v4open, v6open, inopen,
                  pc, err, runs >>

\* The input is exhausted: the with statement is left normally.
EndOfInput ==
  /\ pc = "loop" /\ pos = Len(input)
  /\ pc' = "done"
  /\ v4open' = WithExit(v4open) /\ v6open' = WithExit(v6open)
  /\ inopen' = WithExit(inopen)
  /\ UNCHANGED mavenVars
  /\ UNCHANGED << input, inputExists, v4exists, v4file, v6exists, v6file, pos, err, runs >>

\* The same command line is run again: same input, same output prefix.
Rerun ==
  /\ pc \in {"done", "failed"} /\ runs < MaxRuns
  /\ pc' = "start" /\ pos' = 0 /\ err' = "none" /\ runs' = runs + 1
  /\ UNCHANGED mavenVars
  /\ UNCHANGED << input, inputExists, v4exists, v4file, v6exists, v6file,
                  v4open, v6open, inopen >>

Next ==
  \/ OpenV4 \/ OpenV4Fail \/ OpenV6 \/ OpenV6Fail \/ OpenIn \/ OpenInFail
  \/ ReadFail \/ RowUnpackFail \/ RowParseFail \/ RowEncodeFail \/ RowWrite
  \/ EndOfInput

NextRerun == Next \/ Rerun

Spec == Init /\ [][Next]_vars

SpecRerun == Init /\ [][NextRerun]_vars

(***************************************************************************)
(* maven_fetch.py. A directory is the sequence of its path's components.   *)
(***************************************************************************)
K_gh_a_10 == << "g", ".", "h", ":", "a", ":", "1", ".", "0" >>

K_g_a_1 == << "g", ":", "a", ":", "1" >>

K_g_a == << "g", ":", "a" >>

K_g_a_1_x == << "g", ":", "a", ":", "1", ":", "x" >>

SampleCoordinates == { K_gh_a_10, K_g_a_1, K_g_a, K_g_a_1_x }

\* path = groupId.replace('.', '/') + '/' + artifactId + '/' + version
PathOf(parts) == ReplaceChar(parts[1], ".", "/") \o << "/" >> \o parts[2] \o << "/" >> \o parts[3]

\* name = artifactId + '-' + version
NameOf(parts) == parts[2] \o << "-" >> \o parts[3]

\* filepath = path + '/' + name + '.' + filetype
FilePathOf(parts, filetype) == PathOf(parts) \o << "/" >> \o NameOf(parts) \o << "." >> \o filetype

T_pom == << "p", "o", "m" >>

T_jar == << "j", "a", "r" >>

\* The directory a path names, and the directories above it.
DirOf(path) == SelectSeq(SplitOn(path, "/"), LAMBDA c : c # << >>)

Ancestry(dir) == { SubSeq(dir, 1, k) : k \in 1..Len(dir) }

\* The directory trees the fetcher may find: any of the sample paths'
\* directories, a directory never without its parent.
DirUniverse ==
  UNION { Ancestry(DirOf(PathOf(SplitOn(c, ":")))) :
            c \in {k \in SampleCoordinates : Len(SplitOn(k, ":")) = 3} }

DirTrees == { D \in SUBSET DirUniverse : \A d \in D : Ancestry(d) \subseteq D }

InitMaven ==
  /\ coordinates \in SampleCoordinates
  /\ dirs \in DirTrees
  /\ mfiles = {}
  /\ mpc = "start" /\ merr = "none" /\ mruns = 1
  /\ inputExists = FALSE /\ input = << >>
  /\ v4exists = FALSE /\ v4file = << >> /\ v6exists = FALSE /\ v6file = << >>
  /\ v4open = FALSE /\ v6open = FALSE /\ inopen = FALSE
  /\ pc = "idle" /\ pos = 0 /\ err = "none" /\ runs = 0

Coord == SplitOn(coordinates, ":")

\* groupId, artifactId, version = coordinates.split(':')
SplitOk ==
  /\ mpc = "start" /\ Len(Coord) = 3
  /\ mpc' = "split"
  /\ UNCHANGED << coordinates, dirs, mfiles, merr, mruns >>
  /\ UNCHANGED packerVars

SplitFail ==
  /\ mpc = "start" /\ Len(Coord) # 3
  /\ mpc' = "failed" /\ merr' = "ValueError"
  /\ UNCHANGED << coordinates, dirs, mfiles, mruns >>
  /\ UNCHANGED packerVars

\* makedirs(path): the missing directories of the path are created, and
\* FileExistsError is raised when the path's last directory exists.
MakeDirs ==
  /\ mpc = "split" /\ DirOf(PathOf(Coord)) \notin dirs
  /\ dirs' = dirs \cup Ancestry(DirOf(PathOf(Coord)))
  /\ mpc' = "made"
  /\ UNCHANGED << coordinates, mfiles, merr, mruns >>
  /\ UNCHANGED packerVars

MakeDirsExists ==
  /\ mpc = "split" /\ DirOf(PathOf(Coord)) \in dirs
  /\ mpc' = "failed" /\ merr' = "FileExistsError"
  /\ UNCHANGED << coordinates, dirs, mfiles, mruns >>
  /\ UNCHANGED packerVars

\* The files after shutil.copyfileobj(response, outfile) on open(filepath, 'wb').
Written(files, filepath, body) ==
  {f \in files : f.path # filepath} \cup {[path |-> filepath, body |-> body]}

\* The first turn of the loop: urlopen(url) answers and the body is copied
\* to the .pom file.
FetchPom ==
  /\ mpc = "made"
  /\ mfiles' = Written(mfiles, FilePathOf(Coord, T_pom), T_pom)
  /\ mpc' = "pom"
  /\ UNCHANGED << coordinates, dirs, merr, mruns >>
  /\ UNCHANGED packerVars

\* urlopen(url) raises (HTTP status other than 200, no connection): no file
\* is opened.
FetchPomFail ==
  /\ mpc = "made"
  /\ mpc' = "failed" /\ merr' = "HTTPError"
  /\ UNCHANGED << coordinates, dirs, mfiles, mruns >>
  /\ UNCHANGED packerVars

\* The second turn of the loop, for the .jar file.
FetchJar ==
  /\ mpc = "pom"
  /\ mfiles' = Written(mfiles, FilePathOf(Coord, T_jar), T_jar)
  /\ mpc' = "done"
  /\ UNCHANGED << coordinates, dirs, merr, mruns >>
  /\ UNCHANGED packerVars

FetchJarFail ==
  /\ mpc = "pom"
  /\ mpc' = "failed" /\ merr' = "HTTPError"
  /\ UNCHANGED << coordinates, dirs, mfiles, mruns >>
  /\ UNCHANGED packerVars

\* The same command line is run again in the same working directory.
MavenRerun ==
  /\ mpc \in {"done", "failed"} /\ mruns < MaxRuns
  /\ mpc' = "start" /\ merr' = "none" /\ mruns' = mruns + 1
  /\ UNCHANGED << coordinates, dirs, mfiles >>
  /\ UNCHANGED packerVars

NextMaven ==
  \/ SplitOk \/ SplitFail \/ MakeDirs \/ MakeDirsExists
  \/ FetchPom \/ FetchPomFail \/ FetchJar \/ FetchJarFail \/ MavenRerun

SpecMaven == InitMaven /\ [][NextMaven]_vars

(***************************************************************************)
(* What the claims speak of.                                               *)
(***************************************************************************)
\* The unsigned integer a byte string is in big-endian order.
RECURSIVE BigEndianValue(_)
BigEndianValue(bytes) ==
  IF bytes = << >> THEN 0
  ELSE BigEndianValue(SubSeq(bytes, 1, Len(bytes) - 1)) * 256 + bytes[Len(bytes)]

\* The same for 16 bytes, as eight 16-bit groups.
BigEndianGroups(bytes) == [i \in 1..8 |-> bytes[2 * i - 1] * 256 + bytes[2 * i]]

\* Whether bytes is the packed form of an address of the given version
\* and value.
RoundTrips(version, value, bytes) ==
  IF version = 4 THEN Len(bytes) = 4 /\ BigEndianValue(bytes) = value
  ELSE Len(bytes) = 16 /\ BigEndianGroups(bytes) = value

RecordLen(version) == IF version = 4 THEN 6 ELSE 18

\* A row whose loop body runs to its end.
Completes(item) == IsTriple(item) /\ StartParses(item) /\ AsciiOk(item.fields[3])

\* What a completed row adds to the file of the given version.
RecordFor(version, addr, country) ==
  IF addr.version = version THEN Packed(addr) \o AsciiBytes(country) ELSE << >>

RecordOf(version, item) ==
  IF Completes(item) THEN RecordFor(version, ParseIP(item.fields[1]), item.fields[3])
  ELSE << >>

\* The records of the rows 1..k of the given version, in the rows' order.
RECURSIVE ExpectedFile(_, _)
ExpectedFile(version, k) ==
  IF k = 0 THEN << >>
  ELSE ExpectedFile(version, k - 1) \o RecordOf(version, input[k])

\* The number of rows at the head of the input whose loop body completes.
RECURSIVE GoodPrefix(_)
GoodPrefix(k) ==
  IF k < Len(input) /\ Completes(input[k + 1]) THEN GoodPrefix(k + 1) ELSE k

\* What the row the run stops at has left in the file of the given version.
PartialFor(version, addr) == IF addr.version = version THEN Packed(addr) ELSE << >>

PartialOf(version, k) ==
  IF k < Len(input) /\ IsTriple(input[k + 1]) /\ StartParses(input[k + 1])
  THEN PartialFor(version, ParseIP(input[k + 1].fields[1]))
  ELSE << >>

\* The content of <prefix>.v4 (version 4) or <prefix>.v6 after a run, as a
\* function of the input alone.
FinalFile(version) ==
  IF ~inputExists THEN << >>
  ELSE ExpectedFile(version, GoodPrefix(0)) \o PartialOf(version, GoodPrefix(0))

\* Whether the sequence p is the head of the sequence s.
IsPrefix(p, s) == Len(p) <= Len(s) /\ SubSeq(s, 1, Len(p)) = p

Terminal == pc \in {"done", "failed"}

\* The step is one iteration of the loop on a three-field row whose start
\* address parses.
ParsedRowStep == HasNext /\ IsTriple(NextItem) /\ StartParses(NextItem)

(***************************************************************************)
(* C1                                                                      *)
(***************************************************************************)
\* The step appended one record of the address's version to its file, the
\* address bytes big-endian and then two country bytes, and nothing to the
\* other file.
OneRecord(addr, country, own, ownNew, other, otherNew) ==
  /\ IsPrefix(own, ownNew)
  /\ Len(ownNew) = Len(own) + RecordLen(addr.version)
  /\ RoundTrips(addr.version, addr.value,
                SubSeq(ownNew, Len(own) + 1, Len(ownNew) - 2))
  /\ SubSeq(ownNew, Len(ownNew) - 1, Len(ownNew)) = AsciiBytes(country)
  /\ otherNew = other

OneRecordStep(addr, country) ==
  IF addr.version = 4
  THEN OneRecord(addr, country, v4file, v4file', v6file, v6file')
  ELSE OneRecord(addr, country, v6file, v6file', v4file, v4file')

\* C1: every three-field row whose start address parses makes the packer
\* append exactly one record to the file of the address's family (6 bytes
\* for IPv4: 4 big-endian address bytes whose value is the address, then
\* the 2 ASCII country bytes; 18 bytes for IPv6: 16 address bytes, then the
\* 2 country bytes) and nothing to the other file.
C1_OneRecordPerRow ==
  [][ParsedRowStep => OneRecordStep(ParseIP(NextItem.fields[1]), NextItem.fields[3])]_vars

(***************************************************************************)
(* C2                                                                      *)
(***************************************************************************)
\* C2: after any prefix of the input has been processed, each output file
\* is exactly the records of the processed rows of its family, in the
\* order of the rows; a run that stops inside a row leaves those records
\* at the head of the file (a file only grows at its end).
C2_OrderPreserved ==
  /\ pc \in {"loop", "done"} =>
       v4file = ExpectedFile(4, pos) /\ v6file = ExpectedFile(6, pos)
  /\ (pc = "failed" /\ err \notin {"OutputOpenError", "InputOpenError"}) =>
       IsPrefix(ExpectedFile(4, pos), v4file) /\ IsPrefix(ExpectedFile(6, pos), v6file)

\* Two IPv4 rows with different records and one IPv6 row were processed.
C2_Witness ==
  /\ pc = "loop" /\ pos = 3
  /\ Len(v4file) = 12 /\ SubSeq(v4file, 1, 6) # SubSeq(v4file, 7, 12)
  /\ Len(v6file) = 18

(***************************************************************************)
(* C3                                                                      *)
(***************************************************************************)
\* C3: when every row's start address parses and the run completes,
\* len(v4)/6 + len(v6)/18 is the number of input rows, len(v4) a multiple
\* of 6 and len(v6) a multiple of 18.
C3_RowCount ==
  (pc = "done" /\ \A i \in 1..Len(input) : IsTriple(input[i]) /\ StartParses(input[i]))
  => /\ Len(v4file) % 6 = 0
     /\ Len(v6file) % 18 = 0
     /\ (Len(v4file) \div 6) + (Len(v6file) \div 18) = Len(input)

(***************************************************************************)
(* C4                                                                      *)
(***************************************************************************)
\* C4: whatever the two files held before (absent, empty, left by an
\* earlier run), a run that opened both of them leaves them holding what
\* the input alone determines, so a second run's files are byte-identical
\* to the first run's.
C4_Idempotent ==
  (Terminal /\ err # "OutputOpenError")
  => /\ v4exists /\ v6exists
     /\ v4file = FinalFile(4)
     /\ v6file = FinalFile(6)

\* A second run has completed over the non-empty files of the first.
C4_Witness ==
  /\ runs = 2 /\ pc = "done"
  /\ Len(v4file) > 0 /\ Len(v6file) > 0

(***************************************************************************)
(* C5                                                                      *)
(***************************************************************************)
\* C5: when the start address of the row the loop has reached does not
\* parse, the step aborts the run with the parse error and writes nothing,
\* so that each file holds exactly the records of the rows before it; and
\* a run that has ended writes nothing more.
C5_ParseErrorAborts ==
  [][ /\ (HasNext /\ IsTriple(NextItem) /\ ~StartParses(NextItem))
         => /\ pc' = "failed" /\ err' = "ParseError" /\ pos' = pos
            /\ v4file' = v4file /\ v6file' = v6file
            /\ v4file = ExpectedFile(4, pos) /\ v6file = ExpectedFile(6, pos)
      /\ pc = "failed" => (pc' = "failed" /\ v4file' = v4file /\ v6file' = v6file)
    ]_vars

\* The run stopped at a malformed row that has rows before and after it.
C5_Witness ==
  /\ pc = "failed" /\ err = "ParseError"
  /\ pos = 1 /\ Len(input) = 3
  /\ Len(v4file) + Len(v6file) > 0

(***************************************************************************)
(* C6                                                                      *)
(***************************************************************************)
\* C6: a country code that is not representable in 2 ASCII bytes (a
\* character outside ASCII, or more than 2 ASCII characters) makes the run
\* fail with the encoding error, and no country field of a width other
\* than 2 is written.
C6_CountryTwoBytesOrError ==
  [][ (ParsedRowStep /\ (~AsciiOk(NextItem.fields[3]) \/ Len(NextItem.fields[3]) > 2))
      => (pc' = "failed" /\ err' = "EncodingError") ]_vars

(***************************************************************************)
(* C7                                                                      *)
(***************************************************************************)
\* The step appended the address and the country padded with zero bytes to
\* two bytes.
PaddedRecord(addr, country, old, new) ==
  new = old \o Packed(addr) \o country \o [i \in 1..(2 - Len(country)) |-> 0]

PaddedStep(addr, country) ==
  IF addr.version = 4
  THEN PaddedRecord(addr, country, v4file, v4file') /\ v6file' = v6file
  ELSE PaddedRecord(addr, country, v6file, v6file') /\ v4file' = v4file

\* C7: a row whose country code is shorter than 2 bytes is written with
\* the country zero-padded to 2 bytes, or aborts the run; no record
\* shorter than the record length is appended.
C7_ShortCountryPaddedOrError ==
  [][ (ParsedRowStep /\ AsciiOk(NextItem.fields[3]) /\ Len(NextItem.fields[3]) < 2)
      => \/ (pc' = "failed" /\ v4file' = v4file /\ v6file' = v6file)
         \/ PaddedStep(ParseIP(NextItem.fields[1]), AsciiBytes(NextItem.fields[3])) ]_vars

(***************************************************************************)
(* C8                                                                      *)
(***************************************************************************)
\* C8: in the loop all three handles are open, and on every exit path
\* (the end of the input, or any failure) every handle that was opened is
\* closed: no terminal state has an open handle.
C8_HandlesClosed ==
  /\ pc = "loop" => (v4open /\ v6open /\ inopen)
  /\ Terminal => (~v4open /\ ~v6open /\ ~inopen)

\* A run failed inside the loop, after a row was written.
C8_Witness == pc = "failed" /\ err = "EncodingError" /\ pos >= 1

(***************************************************************************)
(* C9                                                                      *)
(***************************************************************************)
\* C9: for a coordinate group:artifact:version the fetcher does not fail
\* on the directories of the path, whether none, some or all of them
\* exist, and a run whose two downloads succeed has written the .pom and
\* the .jar in the path's directory.
C9_DirectoriesAsNeeded ==
  /\ merr # "FileExistsError"
  /\ mpc = "done" =>
       /\ DirOf(PathOf(Coord)) \in dirs
       /\ [path |-> FilePathOf(Coord, T_pom), body |-> T_pom] \in mfiles
       /\ [path |-> FilePathOf(Coord, T_jar), body |-> T_jar] \in mfiles

(***************************************************************************)
(* C10                                                                     *)
(***************************************************************************)
\* C10: <prefix>.v4 is opened and truncated, then <prefix>.v6, and only
\* then the input; a run whose input cannot be opened ends with both
\* files existing and empty and no row processed.
C10_TruncatedBeforeInput ==
  /\ v6open => v4open
  /\ inopen => v6open
  /\ v4open => (v4exists /\ (pos = 0 => v4file = << >>))
  /\ v6open => (v6exists /\ (pos = 0 => v6file = << >>))
  /\ err = "InputOpenError" =>
       /\ pc = "failed" /\ pos = 0
       /\ v4exists /\ v4file = << >>
       /\ v6exists /\ v6file = << >>

\* The run stopped because the input could not be opened.
C10_Witness == pc = "failed" /\ err = "InputOpenError" /\ ~v4open /\ ~v6open

====
